---- MODULE Spec2Model ----
(***************************************************************************)
(* blender_downloader.py: one run of the script is a straight line         *)
(*   probe -> fetch -> scan -> compare -> download -> wipe -> extract ->   *)
(*   move* -> marker -> exit                                               *)
(* over a file system (base directory, install directory, marker file,     *)
(* temp download files) that outlives the run.  The model runs the script  *)
(* again and again over the same file system.                              *)
(*                                                                         *)
(* Strings are sequences of tokens; "in" and endswith are computed on the  *)
(* sequences.                                                              *)
(***************************************************************************)
EXTENDS Naturals, Sequences, FiniteSets

VARIABLES
    args,          \* [version, os]: the parsed command line, fixed for all runs
    probe_file,    \* does <base_dir>/_temp_test.txt exist
    latest_dir,    \* [kind, entries]: what is at <base_dir>/Blender <version>
    version_file,  \* content of <latest_dir>/.blender_build, or NoFile
    tmp,           \* basename -> content of <tempdir>/<basename>
    pc,            \* position of the running script
    page,          \* anchors of the listing page of the last fetch
    idx,           \* position of the scan loop in the page
    file_url,      \* the href the scan loop stopped at, or NoLink
    no_version_found,
    pending,       \* children of the extracted folder not moved yet
    exit_code,     \* exit code of the process (read when pc = "exit")
    trace,         \* what this run has done so far, in order
    fs0,           \* install dir, marker and temp files when the run began
    last_ok,       \* link of the previous run if it ended normally with a link
    rerun_of       \* that link, once this run has fetched the same listing

vars == <<args, probe_file, latest_dir, version_file, tmp, pc, page, idx,
          file_url, no_version_found, pending, exit_code, trace, fs0,
          last_ok, rerun_of>>

\* Longest listing page of the model, in anchors.
MaxAnchors == 2

-----------------------------------------------------------------------------
\* Strings

Contains(s, sub) ==
    \E i \in 0..Len(s) : /\ i + Len(sub) <= Len(s)
                         /\ SubSeq(s, i + 1, i + Len(sub)) = sub

EndsWith(s, suffix) ==
    /\ Len(suffix) <= Len(s)
    /\ SubSeq(s, Len(s) - Len(suffix) + 1, Len(s)) = suffix

RECURSIVE LastSlash(_, _)
LastSlash(s, i) ==
    IF i = 0 THEN 0 ELSE IF s[i] = "/" THEN i ELSE LastSlash(s, i - 1)

basename(s) == SubSeq(s, LastSlash(s, Len(s)) + 1, Len(s))

-----------------------------------------------------------------------------
\* The inputs of the model

NoHref == <<"None">>    \* link.get("href") of an anchor without href
NoLink == <<"-">>
NoFile == <<"no file">>

Versions == {<<"4.1">>, <<"4.2">>}
OSTags == {<<"linux">>, <<"windows">>}

BuildA == <<"https:", "/", "/", "host", "/", "blender-", "4.1", ".0-", "linux", "-aaa", ".zip">>
BuildB == <<"https:", "/", "/", "host", "/", "blender-", "4.1", ".0-", "linux", "-bbb", ".zip">>
BuildW == <<"https:", "/", "/", "host", "/", "blender-", "4.2", ".0-", "windows", "-ccc", ".zip">>
Checksum == <<"https:", "/", "/", "host", "/", "blender-", "4.1", ".0-", "linux", "-aaa", ".zip", ".sha256">>

Hrefs == {BuildA, BuildB, BuildW, Checksum}
Anchors == Hrefs \cup {NoHref}

RECURSIVE SeqsUpTo(_, _)
SeqsUpTo(S, n) ==
    IF n = 0 THEN {<<>>}
    ELSE LET shorter == SeqsUpTo(S, n - 1)
         IN shorter \cup {Append(p, a) : p \in shorter, a \in S}

Pages == SeqsUpTo(Anchors, MaxAnchors)

\* Children of the single top-level folder of the archive behind a link.
Children(url) ==
    IF url = BuildA THEN {"blender", "lib"}
    ELSE IF url = BuildB THEN {"blender", "datafiles"}
    ELSE {"blender.exe"}

IsDir(name) == name \in {"lib", "datafiles"}

Entry(name, url) == [name |-> name, src |-> url]
Installed(url) == {Entry(n, url) : n \in Children(url)}

Absent == [kind |-> "absent", entries |-> {}]
Dir(es) == [kind |-> "dir", entries |-> es]
Names(es) == {e.name : e \in es}

Basenames == {basename(h) : h \in Hrefs}

-----------------------------------------------------------------------------
\* Expressions of the script

\* line 81: the three-part test on an href
Matches(href, version, os) ==
    /\ Contains(href, <<"blender-">> \o version)
    /\ Contains(href, os)
    /\ EndsWith(href, <<".zip">>)

\* lines 84-86: marker exists and its content equals the link
UpToDate_FileName(content, url) == content # NoFile /\ content = basename(url)
UpToDate(content, url) == content # NoFile /\ content = url

\* lines 27-33: the file opens as a zip and lists its entries
is_valid_zip_Exists(content) == content # "absent"
is_valid_zip(content) == content = "zip"

\* line 93: download unless a valid archive is already there
NeedsDownload_IfMissing(content) == content = "absent"
NeedsDownload(content) == content = "absent" \/ ~is_valid_zip(content)

\* lines 123-124: open(version_file, "w") truncates, then the link is written
MarkerContent_Append(old, url) == IF old = NoFile THEN url ELSE old \o url
MarkerContent_FileName(old, url) == basename(url)
MarkerContent(old, url) == url

-----------------------------------------------------------------------------
\* One run of the script

FileSystem == <<latest_dir, version_file, tmp>>

Init ==
    /\ args \in [version : Versions, os : OSTags]
    /\ probe_file = FALSE
    /\ \/ \* nothing installed yet
          /\ latest_dir \in {Absent, Dir({})}
          /\ version_file = NoFile
          /\ tmp = [b \in Basenames |-> "absent"]
       \/ \* what an earlier run of this command line installed
          \E h \in Hrefs :
             /\ Matches(h, args.version, args.os)
             /\ latest_dir = Dir(Installed(h))
             /\ version_file = h
             /\ tmp = [b \in Basenames |-> IF b = basename(h) THEN "zip" ELSE "absent"]
    /\ pc = "probe"
    /\ page = <<>>
    /\ idx = 1
    /\ file_url = NoLink
    /\ no_version_found = TRUE
    /\ pending = {}
    /\ exit_code = 0
    /\ trace = <<>>
    /\ fs0 = FileSystem
    /\ last_ok = NoLink
    /\ rerun_of = NoLink

\* The process ends: exit(code), the end of the script, or an uncaught exception.
Exit(code, events) ==
    /\ pc' = "exit"
    /\ exit_code' = code
    /\ trace' = trace \o events

Goto(stage, events) ==
    /\ pc' = stage
    /\ exit_code' = exit_code
    /\ trace' = trace \o events

\* An exception nothing catches: traceback, exit code 1.
Raise_Swallowed(events) == Goto("marker", events \o <<"error">>)
Raise(events) == Exit(1, events \o <<"error">>)

\* lines 57-66
Probe ==
    /\ pc = "probe"
    /\ \/ \* open() raises IOError: nothing is created
          /\ probe_file' = probe_file
          /\ Exit(1, <<"PermissionCheck", "permission message", "error">>)
       \/ \* the file is created, the write fails when the file is closed
          /\ probe_file' = TRUE
          /\ Exit(1, <<"PermissionCheck", "permission message", "error">>)
       \/ \* else branch: os.remove
          /\ probe_file' = FALSE
          /\ Goto("fetch", <<"PermissionCheck">>)
    /\ UNCHANGED <<args, latest_dir, version_file, tmp, page, idx, file_url,
                   no_version_found, pending, fs0, last_ok, rerun_of>>

\* lines 72-77
Fetch ==
    /\ pc = "fetch"
    /\ \/ \* requests.get raises
          /\ Raise(<<"Fetch", "GET listing">>)
          /\ UNCHANGED <<page, rerun_of>>
       \/ \E p \in Pages :
             /\ page' = p
             /\ rerun_of' = IF p = page THEN last_ok ELSE NoLink
             /\ Goto("scan", <<"Fetch", "GET listing">>)
    /\ idx' = 1
    /\ no_version_found' = TRUE
    /\ UNCHANGED <<args, probe_file, latest_dir, version_file, tmp, file_url,
                   pending, fs0, last_ok>>

Entered(stage) == IF idx = 1 THEN <<stage>> ELSE <<>>

\* lines 79-82 and 129-130: one iteration of the loop, or its end
Scan ==
    /\ pc = "scan"
    /\ IF idx > Len(page)
       THEN \* the loop ran out of anchors
            /\ Exit(0, Entered("Match") \o <<"not found">>)
            /\ UNCHANGED <<idx, file_url, no_version_found>>
       ELSE IF page[idx] = NoHref
       THEN \* link.get("href") is None: the "in" test raises TypeError
            /\ Raise(Entered("Match"))
            /\ UNCHANGED <<idx, file_url, no_version_found>>
       ELSE IF Matches(page[idx], args.version, args.os)
       THEN /\ no_version_found' = FALSE
            /\ file_url' = page[idx]
            /\ Goto("compare", Entered("Match"))
            /\ UNCHANGED idx
       ELSE /\ idx' = idx + 1
            /\ Goto("scan", Entered("Match"))
            /\ UNCHANGED <<file_url, no_version_found>>
    /\ UNCHANGED <<args, probe_file, latest_dir, version_file, tmp, page,
                   pending, fs0, last_ok, rerun_of>>

\* lines 83-89
Compare ==
    /\ pc = "compare"
    /\ IF UpToDate(version_file, file_url)
       THEN Exit(0, <<"CompareMarker", "no new version">>)
       ELSE Goto("download", <<"CompareMarker">>)
    /\ UNCHANGED <<args, probe_file, latest_dir, version_file, tmp, page, idx,
                   file_url, no_version_found, pending, fs0, last_ok, rerun_of>>

download_path == basename(file_url)

\* lines 91-105
Download ==
    /\ pc = "download"
    /\ LET old == tmp[download_path]
           removed == IF old # "absent" THEN <<"remove">> ELSE <<>>
       IN IF ~NeedsDownload(old)
          THEN /\ Goto("wipe", <<"Download", "cached">>)
               /\ UNCHANGED tmp
          ELSE \/ \* requests.get raises before the file is opened
                  /\ tmp' = [tmp EXCEPT ![download_path] = "absent"]
                  /\ Raise(<<"Download">> \o removed \o <<"GET archive">>)
               \/ \* the stream breaks in iter_content: part of the archive is on disk
                  /\ tmp' = [tmp EXCEPT ![download_path] = "partial"]
                  /\ Raise(<<"Download">> \o removed
                            \o <<"GET archive", "write", "interrupted">>)
               \/ \* the whole body is written: a zip, or whatever the server sent
                  \E body \in {"zip", "not a zip"} :
                     /\ tmp' = [tmp EXCEPT ![download_path] = body]
                     /\ Goto("wipe", <<"Download">> \o removed
                                     \o <<"GET archive", "write">>)
    /\ UNCHANGED <<args, probe_file, latest_dir, version_file, page, idx,
                   file_url, no_version_found, pending, fs0, last_ok, rerun_of>>

\* shutil.rmtree with the printing onerror (line 112): every entry is removed or
\* reported and left; the directory goes only when it is empty and rmdir works.
\* What is not a directory is reported and left.
rmtree(dir, marker, kept, keep_marker, rmdir_ok) ==
    IF dir.kind # "dir" THEN [dir |-> dir, marker |-> marker]
    ELSE IF kept = {} /\ ~keep_marker /\ rmdir_ok
         THEN [dir |-> Absent, marker |-> NoFile]
         ELSE [dir |-> Dir(kept), marker |-> IF keep_marker THEN marker ELSE NoFile]

\* os.makedirs(latest_dir, exist_ok=True) (line 113)
makedirs(dir, mkdir_ok) ==
    IF dir.kind = "absent" /\ mkdir_ok THEN Dir({}) ELSE dir

\* lines 109-115: the scratch directory is made, then the try block, whose
\* except clause prints and goes on
Wipe ==
    /\ pc = "wipe"
    /\ \E kept \in SUBSET latest_dir.entries, keep_marker, rmdir_ok, mkdir_ok \in BOOLEAN :
          LET existed == latest_dir.kind # "absent"
              rm_error == kept # {} \/ keep_marker \/ ~rmdir_ok
              wiped == IF existed
                       THEN rmtree(latest_dir, version_file, kept, keep_marker, rmdir_ok)
                       ELSE [dir |-> latest_dir, marker |-> version_file]
          IN \* the outcomes the file system allows
             /\ ~existed => ~rm_error
             /\ (latest_dir.kind = "file") => (kept = {} /\ ~keep_marker /\ ~rmdir_ok)
             /\ keep_marker => version_file # NoFile
             /\ (kept # {} \/ keep_marker) => ~rmdir_ok
             /\ (wiped.dir.kind = "dir") => mkdir_ok
             /\ (wiped.dir.kind = "file") => ~mkdir_ok
             /\ latest_dir' = makedirs(wiped.dir, mkdir_ok)
             /\ version_file' = wiped.marker
             /\ Goto("extract",
                     <<"Extract&Install", "mkdtemp">>
                     \o (IF existed THEN <<"rmtree">> ELSE <<>>)
                     \o (IF rm_error THEN <<"removal error">> ELSE <<>>)
                     \o <<"makedirs">>
                     \o (IF ~mkdir_ok THEN <<"makedirs error">> ELSE <<>>))
    /\ UNCHANGED <<args, probe_file, tmp, page, idx, file_url, no_version_found,
                   pending, fs0, last_ok, rerun_of>>

\* lines 116-118
Extract ==
    /\ pc = "extract"
    /\ IF ~is_valid_zip(tmp[download_path])
       THEN \* ZipFile() raises BadZipFile
            /\ Raise(<<"open zip", "rm scratch">>)
            /\ UNCHANGED pending
       ELSE \/ \* extractall fails on the way
               /\ Raise(<<"open zip", "extractall", "rm scratch">>)
               /\ UNCHANGED pending
            \/ /\ pending' = Children(file_url)
               /\ Goto("move", <<"open zip", "extractall">>)
    /\ UNCHANGED <<args, probe_file, latest_dir, version_file, tmp, page, idx,
                   file_url, no_version_found, fs0, last_ok, rerun_of>>

move_Folder(item, url, dst) ==
    IF dst.kind = "dir"
    THEN [ok |-> TRUE, dst |-> Dir(dst.entries \cup {Entry("top-level folder", url)})]
    ELSE [ok |-> FALSE, dst |-> dst]

\* shutil.move(src, dst), src a child of the extracted folder:
\* into dst when dst is a directory (an existing name there is an error),
\* as dst when nothing is at dst, over dst when dst is a file and src is one.
move(item, url, dst) ==
    IF dst.kind = "dir"
    THEN IF item \in Names(dst.entries)
         THEN [ok |-> FALSE, dst |-> dst]
         ELSE [ok |-> TRUE, dst |-> Dir(dst.entries \cup {Entry(item, url)})]
    ELSE IF dst.kind = "absent"
    THEN IF IsDir(item)
         THEN [ok |-> TRUE, dst |-> Dir({Entry("children of the item", url)})]
         ELSE [ok |-> TRUE, dst |-> [kind |-> "file", entries |-> {}]]
    ELSE IF IsDir(item)
         THEN [ok |-> FALSE, dst |-> dst]
         ELSE [ok |-> TRUE, dst |-> dst]

\* lines 119-120: one iteration of the loop (os.listdir gives no order), or
\* its end, where the scratch directory is removed
Move ==
    /\ pc = "move"
    /\ IF pending = {}
       THEN /\ Goto("marker", <<"rm scratch">>)
            /\ UNCHANGED <<latest_dir, pending>>
       ELSE \E item \in pending :
               LET r == move(item, file_url, latest_dir)
               IN IF r.ok
                  THEN /\ latest_dir' = r.dst
                       /\ pending' = pending \ {item}
                       /\ Goto("move", <<"move">>)
                  ELSE /\ latest_dir' = latest_dir
                       /\ pending' = {}
                       /\ Raise(<<"move", "rm scratch">>)
    /\ UNCHANGED <<args, probe_file, version_file, tmp, page, idx, file_url,
                   no_version_found, fs0, last_ok, rerun_of>>

\* lines 122-127
WriteMarker ==
    /\ pc = "marker"
    /\ IF latest_dir.kind = "dir"
       THEN /\ version_file' = MarkerContent(version_file, file_url)
            /\ Exit(0, <<"WriteMarker", "marker written", "installed">>)
       ELSE \* open() raises: the marker's directory is not there
            /\ version_file' = version_file
            /\ Raise(<<"WriteMarker">>)
    /\ UNCHANGED <<args, probe_file, latest_dir, tmp, page, idx, file_url,
                   no_version_found, pending, fs0, last_ok, rerun_of>>

\* The script is started again on the file system the last run left.
NextRun ==
    /\ pc = "exit"
    /\ pc' = "probe"
    /\ idx' = 1
    /\ file_url' = NoLink
    /\ no_version_found' = TRUE
    /\ pending' = {}
    /\ exit_code' = 0
    /\ trace' = <<>>
    /\ fs0' = FileSystem
    /\ last_ok' = IF exit_code = 0 THEN file_url ELSE NoLink
    /\ rerun_of' = NoLink
    /\ UNCHANGED <<args, probe_file, latest_dir, version_file, tmp, page>>

Next ==
    \/ Probe
    \/ Fetch
    \/ Scan
    \/ Compare
    \/ Download
    \/ Wipe
    \/ Extract
    \/ Move
    \/ WriteMarker
    \/ NextRun

Spec == Init /\ [][Next]_vars

-----------------------------------------------------------------------------
\* Reading the trace and the file system

Has(event) == \E i \in DOMAIN trace : trace[i] = event
Before(e1, e2) ==
    \A j \in DOMAIN trace : trace[j] = e2 => \E i \in 1..(j - 1) : trace[i] = e1
Count(event) == Cardinality({i \in DOMAIN trace : trace[i] = event})

dir0 == fs0[1]
marker0 == fs0[2]
tmp0 == fs0[3]

Prefix(s, t) == Len(s) <= Len(t) /\ SubSeq(t, 1, Len(s)) = s

\* What the listing page promises, read off the page alone.
Satisfies(a) ==
    /\ a # NoHref
    /\ Contains(a, <<"blender-">> \o args.version)
    /\ Contains(a, args.os)
    /\ EndsWith(a, <<".zip">>)
Satisfying == {i \in DOMAIN page : Satisfies(page[i])}
FirstSatisfying == CHOOSE i \in Satisfying : \A j \in Satisfying : i <= j
ScanOver == Has("Match") /\ pc # "scan"

-----------------------------------------------------------------------------
\* C1: once the scan of a fetched page is over, the run has selected the first
\* anchor (in document order) whose href contains "blender-<version>" and the
\* OS tag and ends with ".zip", whatever precedes it, anchors without href
\* included; and when no anchor qualifies it has selected nothing, has reported
\* that the version cannot be found and downloads nothing.
C1_LinkSelection ==
    ScanOver =>
        IF Satisfying # {}
        THEN file_url = page[FirstSatisfying]
        ELSE /\ file_url = NoLink
             /\ Has("not found")
             /\ ~Has("GET archive")

\* C2: a run that finds the marker file holding exactly the selected link
\* downloads nothing, leaves install directory, marker file and temp download
\* files as they were when it began, does not report "cannot be found", and
\* ends with exit code 0.
C2_NoUpdatePath ==
    (file_url # NoLink /\ marker0 = file_url) =>
        /\ pc \in {"compare", "exit"}
        /\ FileSystem = fs0
        /\ \A e \in {"GET archive", "remove", "write", "rmtree", "makedirs",
                      "extractall", "move", "marker written", "not found", "error"} :
                ~Has(e)
        /\ pc = "exit" => (exit_code = 0 /\ Has("no new version"))

C2_Witness ==
    /\ pc = "exit"
    /\ file_url # NoLink
    /\ marker0 = file_url
    /\ Has("no new version")
    /\ dir0.entries # {}

\* C3: a run that selected a link and found the marker absent or different goes
\* on to the download stage; and when it reaches its end without a fatal error,
\* the marker holds exactly the selected link, every child of the archive was
\* moved before the marker was written, and the marker write is the last change
\* the run makes to the file system.
C3_UpdatePath ==
    (Has("CompareMarker") /\ marker0 # file_url) =>
        /\ ~Has("no new version")
        /\ pc \in {"download", "wipe", "extract", "move", "marker", "exit"}
        /\ (pc # "download") => Has("Download")
        /\ (pc = "exit" /\ ~Has("error")) =>
              /\ version_file = file_url
              /\ exit_code = 0
              /\ pending = {}
              /\ Count("move") = Cardinality(Children(file_url))
              /\ Before("rm scratch", "marker written")
              /\ SubSeq(trace, Len(trace) - 2, Len(trace))
                    = <<"WriteMarker", "marker written", "installed">>

C3_Witness ==
    /\ pc = "exit"
    /\ Has("installed")
    /\ marker0 \notin {NoFile, file_url}
    /\ version_file = file_url

C5_RerunIdempotent ==
    (rerun_of # NoLink /\ pc # "scan") =>
        /\ file_url = rerun_of
        /\ marker0 = rerun_of
        /\ pc \in {"compare", "exit"}
        /\ pc = "exit" =>
              /\ Has("no new version")
              /\ ~Has("GET archive")
              /\ exit_code = 0
              /\ latest_dir = dir0 /\ version_file = marker0 /\ tmp = tmp0

C5_Witness ==
    /\ pc = "exit"
    /\ rerun_of # NoLink
    /\ Has("no new version")
    /\ last_ok = rerun_of

\* A successful run: it printed the success message and no stage reported an
\* error.
Successful ==
    /\ pc = "exit"
    /\ Has("installed")
    /\ \A e \in {"error", "removal error", "makedirs error"} : ~Has(e)

C7_ProbeLeavesNothing ==
    Has("PermissionCheck") =>
        /\ probe_file = FALSE
        /\ Has("permission message") =>
              /\ pc = "exit"
              /\ exit_code = 1
              /\ ~Has("GET listing")
              /\ ~Has("GET archive")
              /\ FileSystem = fs0

\* The stages of section 4.7's state machine, as the trace names them.
Stages == <<"PermissionCheck", "Fetch", "Match", "CompareMarker", "Download",
            "Extract&Install", "WriteMarker">>
IsStage(e) == \E i \in DOMAIN Stages : Stages[i] = e
StagesEntered == SelectSeq(trace, IsStage)
InOrderOnce == Prefix(StagesEntered, Stages)

Fatal == {"error"}
Tolerated == {"removal error", "makedirs error"}
EndsRun(failures) ==
    \A i \in DOMAIN trace :
        trace[i] \in failures => (i = Len(trace) /\ pc = "exit")

\* C8 as stated: the stages are entered in the order of the state machine, each
\* at most once; every failure, those of the wipe and of the recreation of the
\* install directory included, is the last thing the run does; and no run in
\* which something failed writes the marker.
C8_EveryFailureTerminal ==
    /\ InOrderOnce
    /\ EndsRun(Fatal \cup Tolerated)
    /\ (\E e \in Fatal \cup Tolerated : Has(e)) => ~Has("marker written")

\* C8 as amended: the stages are entered in order, each at most once; every
\* failure other than a removal or makedirs error of the wipe is the last thing
\* the run does, with exit code 1 and no marker written; a removal or makedirs
\* error is reported and the run goes on to open the archive.
C8_FailuresTerminalButWipe ==
    /\ InOrderOnce
    /\ EndsRun(Fatal)
    /\ Has("error") => (exit_code = 1 /\ ~Has("marker written"))
    /\ (\E e \in Tolerated : Has(e)) => (pc = "extract" \/ Has("open zip"))

C8_Witness ==
    /\ Has("removal error")
    /\ Has("marker written")
    /\ pc = "exit"

C10_MarkerMeansInstalled ==
    (pc = "exit" /\ version_file # NoFile) =>
        /\ latest_dir.kind = "dir"
        /\ Installed(version_file) \subseteq latest_dir.entries

=============================================================================
